---- MODULE Spec2Model ----
(***************************************************************************)
(* Voice: push-to-talk recording / local transcription.                    *)
(*                                                                         *)
(* The presentation layer is modelled from its source: the Overlay         *)
(* (src/README.md holds Overlay.tsx, lines 187-370) and the Settings panel *)
(* (src/src/components/Settings.tsx).  The core they talk to (Session      *)
(* Controller, Audio Capture Engine, Model Catalog & Download Manager,     *)
(* Event/Command Bridge) is the Rust backend, which is not part of the     *)
(* inspected sources; it is modelled from spec.md sections 3 to 7.         *)
(*                                                                         *)
(* Events travel from the core to each window through a FIFO channel       *)
(* (evq to the Overlay, stq to the Settings panel); a command is a call    *)
(* record that the core handles at some later step and whose response the  *)
(* caller's continuation consumes at yet another step.                     *)
(***************************************************************************)
EXTENDS Naturals, Sequences, FiniteSets

VARIABLES
  sess,          \* Session.state (spec 4.1)
  buf,           \* the session's AudioBuffer: the captured chunks, in order
  levelsEmitted, \* history: the levels emitted for the chunks in the buffer
  last,          \* history: the Session Controller's most recent operation
  isDownloaded,  \* ModelDescriptor.isDownloaded, per model id
  activeModel,   \* ActiveModel: a downloaded model id, or NoModel
  job,           \* DownloadJob per model id: transfers running, bytes so far
  evq,           \* events emitted to the Overlay window, not yet delivered
  stq,           \* events emitted to the Settings window, not yet delivered
  ovState,       \* Overlay: state
  ovModelReady,  \* Overlay: modelReady
  ovAudioLevel,  \* Overlay: audioLevel
  ovProgress,    \* Overlay: downloadProgress (<<>> is null)
  ovPc,          \* Overlay: position of the mount effect's promise chain
  ovMounted,     \* Overlay: mounted (the listeners effect's cleanup has not run)
  ovReg,         \* Overlay: per event name, where its listen() registration is
  stModels,      \* Settings: models, as [loaded, down]: the downloaded ids listed
  stSelected,    \* Settings: selectedModel
  stDownloading, \* Settings: downloading (NoModel is null)
  stProgress,    \* Settings: downloadProgress (<<>> is null)
  stCalls,       \* Settings: the invoke() calls in flight, in issue order
  probe,         \* a set_model_size sent by another client: <<id, outcome>>
  clicked,       \* history: the model whose button was clicked last
  systemDevices,   \* the input device names the host reports
  deviceSelection, \* AudioDeviceSelection: a device name, or NoDevice
  stDevices,       \* Settings: devices
  stCurrentDevice, \* Settings: currentDevice (NoDevice is null)
  devCalls         \* Settings: the device invoke() calls in flight

coreVars == <<sess, buf, levelsEmitted, last, isDownloaded, activeModel, job>>
regVars == <<ovMounted, ovReg>>
ovVars == <<ovState, ovModelReady, ovAudioLevel, ovProgress, ovPc, regVars>>
devVars == <<systemDevices, deviceSelection, stDevices, stCurrentDevice, devCalls>>
stVars == <<stModels, stSelected, stDownloading, stProgress, stCalls, probe, clicked, devVars>>
sessionVars == <<sess, buf, levelsEmitted, last>>
catalogVars == <<isDownloaded, activeModel, job>>
vars == <<sess, buf, levelsEmitted, last, isDownloaded, activeModel, job, evq, stq,
          ovState, ovModelReady, ovAudioLevel, ovProgress, ovPc,
          ovMounted, ovReg,
          stModels, stSelected, stDownloading, stProgress, stCalls, probe, clicked,
          systemDevices, deviceSelection, stDevices, stCurrentDevice, devCalls>>

(***************************************************************************)
(* Bounds of the model.                                                    *)
(***************************************************************************)
\* chunks after which the maximum-recording-duration guard stops capture
MaxChunks == 2
\* session events the Overlay's channel holds undelivered
MaxQueue == 2
\* progress events a window's channel holds undelivered
MaxBacklog == 1
\* invoke() calls the Settings panel may have in flight
MaxCalls == 2
\* bytesTotal of every model artifact, in progress ticks (spec 8: the
\* progress sequence 0/500, 250/500, 500/500)
TotalBytes == 2

\* largest `total` of the progress events the Overlay's view is computed for
MaxTotal == 4

(***************************************************************************)
(* Program constants.                                                      *)
(***************************************************************************)
\* the size variants of the catalog (two of the three: "large" behaves as
\* "medium" does, no code names a variant other than the default "small")
Models == {"small", "medium"}
\* null for a model id
NoModel == "none"
\* Settings' initial selectedModel, and the variant downloaded on first use
DefaultModel == "small"
\* minimum recording length, in chunks, below which a release is a tap
MinChunks == 2
\* audio-level payloads: the two ends of [0,1]
Levels == {0, 1}
SessionStates == {"idle", "recording", "processing", "done", "error"}
LifecycleEvents == {"recording-started", "recording-stopped",
                    "transcription-started", "transcription-complete",
                    "transcription-error"}

\* the events the Overlay registers a listener for
ListenerNames == LifecycleEvents \cup {"audio-level", "download-progress"}

\* input device names as the host reports them: an ordinary one, and one
\* that reads like the value of the panel's "System Default" option
DeviceNames == {"default", "USB Microphone"}
\* null for a device name
NoDevice == "null"
\* the label of the first option of the Audio Input select
SystemDefault == "System Default"

\* An event: its name and payload (size, a, b: model id, and two numbers).
Event(name, size, a, b) == [name |-> name, size |-> size, a |-> a, b |-> b]
Plain(name) == Event(name, "", 0, 0)

(***************************************************************************)
(* Overlay: what each listener does to the component's state.              *)
(***************************************************************************)
\* OverlayStateOn with the transcription-started listener setting "recording"
OverlayStateOn_StartedRecords(name, s) ==
  CASE name = "recording-started" -> "recording"
    [] name = "recording-stopped" -> "processing"
    [] name = "transcription-started" -> "recording"
    [] name = "transcription-complete" -> "done"
    [] name = "transcription-error" -> "error"
    [] OTHER -> s

\* OverlayStateOn with the transcription-error listener setting "done"
OverlayStateOn_ErrorShowsDone(name, s) ==
  CASE name = "recording-started" -> "recording"
    [] name = "recording-stopped" -> "processing"
    [] name = "transcription-started" -> "processing"
    [] name = "transcription-complete" -> "done"
    [] name = "transcription-error" -> "done"
    [] OTHER -> s

\* OverlayStateOn with the transcription-error listener setting "processing"
OverlayStateOn_ErrorProcesses(name, s) ==
  CASE name = "recording-started" -> "recording"
    [] name = "recording-stopped" -> "processing"
    [] name = "transcription-started" -> "processing"
    [] name = "transcription-complete" -> "done"
    [] name = "transcription-error" -> "processing"
    [] OTHER -> s

\* OverlayStateOn with the recording-stopped listener setting "idle"
OverlayStateOn_StoppedIdles(name, s) ==
  CASE name = "recording-started" -> "recording"
    [] name = "recording-stopped" -> "idle"
    [] name = "transcription-started" -> "processing"
    [] name = "transcription-complete" -> "done"
    [] name = "transcription-error" -> "error"
    [] OTHER -> s

\* setState(...) of the listener registered for event `name`
OverlayStateOn(name, s) ==
  CASE name = "recording-started" -> "recording"
    [] name = "recording-stopped" -> "processing"
    [] name = "transcription-started" -> "processing"
    [] name = "transcription-complete" -> "done"
    [] name = "transcription-error" -> "error"
    [] OTHER -> s

\* variant: the audio-level listener stores twice the payload
OverlayLevelOn_Doubled(ev, l) ==
  CASE ev.name = "recording-started" -> 0
    [] ev.name = "audio-level" -> ev.a + ev.a
    [] ev.name = "recording-stopped" -> 0
    [] OTHER -> l

\* variant: the download-progress listener resets the level as well
OverlayLevelOn_ProgressResets(ev, l) ==
  CASE ev.name = "recording-started" -> 0
    [] ev.name = "audio-level" -> ev.a
    [] ev.name = "recording-stopped" -> 0
    [] ev.name = "download-progress" -> 0
    [] OTHER -> l

\* variant: the recording-stopped listener leaves the level as it is
OverlayLevelOn_StopKeeps(ev, l) ==
  CASE ev.name = "recording-started" -> 0
    [] ev.name = "audio-level" -> ev.a
    [] OTHER -> l

\* setAudioLevel(...) of the listener registered for the event
OverlayLevelOn(ev, l) ==
  CASE ev.name = "recording-started" -> 0
    [] ev.name = "audio-level" -> ev.a
    [] ev.name = "recording-stopped" -> 0
    [] OTHER -> l

\* variant: the listener keeps the bytes still missing
OverlayProgressOn_Remaining(ev, p) ==
  IF ev.name = "download-progress"
  THEN IF ev.a >= ev.b THEN <<>> ELSE <<ev.b - ev.a, ev.b>>
  ELSE p

\* the download-progress listener: setDownloadProgress, then on the terminal
\* event setModelReady(true) and setDownloadProgress(null)
OverlayProgressOn(ev, p) ==
  IF ev.name = "download-progress"
  THEN IF ev.a >= ev.b THEN <<>> ELSE <<ev.a, ev.b>>
  ELSE p

\* variant: any progress event marks the model ready
OverlayReadyOn_AnyProgress(ev, r) ==
  IF ev.name = "download-progress" THEN TRUE ELSE r

OverlayReadyOn(ev, r) ==
  IF ev.name = "download-progress" /\ ev.a >= ev.b THEN TRUE ELSE r

\* if (!modelReady && downloadProgress): the progress view is rendered
ShowsProgressBar(ready, progress) == ~ready /\ progress # <<>>

(***************************************************************************)
(* IEEE-754 double arithmetic, as far as percent needs it.                 *)
(***************************************************************************)
\* A positive double is a record [m, f]: a mantissa of MantissaBits binary
\* digits (most significant first, the first one 1) and the number f of
\* those digits that lie after the binary point: its value is m / 2^f.
MantissaBits == 53

\* the binary digits of a natural number, most significant first
RECURSIVE IntBits(_)
IntBits(n) == IF n = 0 THEN <<>> ELSE Append(IntBits(n \div 2), n % 2)

\* the natural number of a sequence of binary digits
RECURSIVE BitsToInt(_)
BitsToInt(b) ==
  IF b = <<>> THEN 0
  ELSE 2 * BitsToInt(SubSeq(b, 1, Len(b) - 1)) + b[Len(b)]

\* the first k binary digits after the point of r / t, for r < t
RECURSIVE FracBits(_, _, _)
FracBits(r, t, k) ==
  IF k = 0 THEN <<>>
  ELSE IF 2 * r >= t THEN <<1>> \o FracBits(2 * r - t, t, k - 1)
       ELSE <<0>> \o FracBits(2 * r, t, k - 1)

\* what is left of r / t after those k digits (0: the digits are exact)
RECURSIVE FracRem(_, _, _)
FracRem(r, t, k) ==
  IF k = 0 THEN r
  ELSE IF 2 * r >= t THEN FracRem(2 * r - t, t, k - 1)
       ELSE FracRem(2 * r, t, k - 1)

\* the number of zeros between the point and the first 1 of r / t, 0 < r < t
RECURSIVE LeadZeros(_, _)
LeadZeros(r, t) == IF 2 * r >= t THEN 0 ELSE 1 + LeadZeros(2 * r, t)

\* b with zeros in front, n digits in all
Pad(b, n) == [i \in 1..(n - Len(b)) |-> 0] \o b

\* A mantissa is added to and multiplied in three parts, of 17, 18 and 18
\* digits, so that no intermediate result leaves the 32-bit integers.
LimbBits == 18
LimbBase == 262144

\* the three parts of a mantissa, as numbers
Limbs(m) ==
  <<BitsToInt(SubSeq(m, 1, MantissaBits - 2 * LimbBits)),
    BitsToInt(SubSeq(m, MantissaBits - 2 * LimbBits + 1, MantissaBits - LimbBits)),
    BitsToInt(SubSeq(m, MantissaBits - LimbBits + 1, MantissaBits))>>

\* the digits of hi * LimbBase^2 + mid * LimbBase + lo, for hi > 0
FromLimbs(hi, mid, lo) ==
  IntBits(hi + (mid + lo \div LimbBase) \div LimbBase)
    \o Pad(IntBits((mid + lo \div LimbBase) % LimbBase), LimbBits)
    \o Pad(IntBits(lo % LimbBase), LimbBits)

\* the digits of m * k + c, for a mantissa m and small k, c
MulAdd(m, k, c) ==
  FromLimbs(Limbs(m)[1] * k, Limbs(m)[2] * k, Limbs(m)[3] * k + c)

\* round to nearest, ties to even: the digits b (the first one 1, at least
\* MantissaBits of them, f of them after the point; `more` tells that the
\* exact value has non-zero digits beyond b) as a double
RoundToDouble(b, f, more) ==
  LET drop == Len(b) - MantissaBits
      m == SubSeq(b, 1, MantissaBits)
      half == drop >= 1 /\ b[MantissaBits + 1] = 1
      rest == more \/ \E i \in (MantissaBits + 2)..Len(b) : b[i] = 1
      up == half /\ (rest \/ m[MantissaBits] = 1)
      m1 == IF up THEN MulAdd(m, 1, 1) ELSE m
  IN IF Len(m1) > MantissaBits
     THEN [m |-> SubSeq(m1, 1, MantissaBits), f |-> f - drop - 1]
     ELSE [m |-> m1, f |-> f - drop]

\* the double nearest to d / t, for d > 0 and t > 0
Quotient(d, t) ==
  LET whole == IntBits(d \div t)
      r == d % t
      z == IF whole = <<>> /\ r > 0 THEN LeadZeros(r, t) ELSE 0
      n == z + MantissaBits + 1 - Len(whole)
      digits == whole \o SubSeq(FracBits(r, t, n), z + 1, n)
  IN RoundToDouble(digits, n, FracRem(r, t, n) # 0)

\* the double nearest to x * 100
Times100(x) == RoundToDouble(MulAdd(x.m, 100, 0), x.f, FALSE)

\* Math.round(x) = floor(x + 1/2), for a double x below 2^52
MathRound(x) ==
  LET w == MantissaBits - x.f
  IN (IF w >= 1 THEN BitsToInt(SubSeq(x.m, 1, w)) ELSE 0)
       + (IF w >= 0 THEN x.m[w + 1] ELSE 0)

\* variant: the percentage is cut off, not rounded
Percent_Truncated(downloaded, total) ==
  IF total = 0 THEN 0 ELSE (100 * downloaded) \div total

\* percent: total ? Math.round((downloaded / total) * 100) : 0, in the
\* double arithmetic of the code: the quotient is rounded to a double, the
\* product with 100 again, and Math.round takes the nearest integer of
\* that double, so a quotient whose exact percentage ends in .5 goes up or
\* down as the two roundings leave it (23 of 40 gives 57, 1 of 8 gives 13)
Percent(downloaded, total) ==
  IF total = 0 \/ downloaded = 0 THEN 0
  ELSE MathRound(Times100(Quotient(downloaded, total)))

(***************************************************************************)
(* Overlay: what is rendered.                                              *)
(***************************************************************************)
\* variant: the bars stay visible in state done
ShowBars_AlsoDone(state) == state \in {"recording", "processing", "done"}

\* StateVisualizer: showBars
ShowBars(state) == state \in {"recording", "processing"}

\* StateVisualizer: showIcon
ShowIcon(state) == state \in {"done", "error"}

\* StateVisualizer: the icon inside the showIcon block
Icon(state) ==
  CASE state = "done" -> "checkmark"
    [] state = "error" -> "x"
    [] OTHER -> "none"

\* Overlay render: the progress view returns first; otherwise the
\* StateVisualizer is rendered when state !== "idle"
VisualizerRendered(ready, progress, state) ==
  ~ShowsProgressBar(ready, progress) /\ state # "idle"

\* what is visible in the Overlay window
BarsVisible == VisualizerRendered(ovModelReady, ovProgress, ovState) /\ ShowBars(ovState)
IconVisible(icon) ==
  /\ VisualizerRendered(ovModelReady, ovProgress, ovState)
  /\ ShowIcon(ovState)
  /\ Icon(ovState) = icon

\* The listener for n is registered with the event system: from the
\* listen(n, ...) call on, whether or not its promise has resolved, until
\* the unlisten function it resolves to is called.
Registered(n) == ovReg[n] \in {"pending", "held", "leaked"}

\* the listener registered for the event's name runs
OverlayListener(ev) ==
  /\ ovState' = OverlayStateOn(ev.name, ovState)
  /\ ovAudioLevel' = OverlayLevelOn(ev, ovAudioLevel)
  /\ ovProgress' = OverlayProgressOn(ev, ovProgress)
  /\ ovModelReady' = OverlayReadyOn(ev, ovModelReady)

\* One event leaves the channel to the Overlay window: the listener
\* registered for its name runs; with none registered the event is lost.
OverlayDeliver ==
  /\ evq # <<>>
  /\ IF Registered(Head(evq).name)
     THEN OverlayListener(Head(evq))
     ELSE UNCHANGED <<ovState, ovAudioLevel, ovProgress, ovModelReady>>
  /\ evq' = Tail(evq)
  /\ UNCHANGED <<regVars, coreVars, stq, ovPc, stVars>>

\* the payloads an event of this name is emitted with
Payloads(name) ==
  CASE name = "audio-level" -> {Event(name, "", l, 0) : l \in Levels}
    [] name = "download-progress" ->
         {Event(name, "", d, t) : d \in 0..MaxTotal, t \in 0..MaxTotal}
    [] OTHER -> {Plain(name)}

\* emitEvent(name, payload): the listener registered for the name is called
\* at once, with any event after any other; with no listener registered
\* nothing happens.
EmitEvent ==
  /\ \E name \in ListenerNames :
       /\ Registered(name)
       /\ \E ev \in Payloads(name) : OverlayListener(ev)
  /\ UNCHANGED <<regVars, coreVars, evq, stq, ovPc, stVars>>

(***************************************************************************)
(* Session Controller (spec 4.1, 4.2, 4.3, 7).                             *)
(***************************************************************************)
Room(n) == Len(evq) + n <= MaxQueue
Emit(evs) == evq' = evq \o evs

\* is_model_ready: a model is active and downloaded
ModelReady == activeModel # NoModel /\ isDownloaded[activeModel]

\* idle (or done/error, reset at once) --(hotkey press)--> recording
PressStart ==
  /\ sess \in {"idle", "done", "error"}
  /\ ModelReady
  /\ Room(1)
  /\ sess' = "recording"
  /\ buf' = <<>>
  /\ levelsEmitted' = <<>>
  /\ last' = "press"
  /\ Emit(<<Plain("recording-started")>>)

\* a press that cannot start: NoActiveModel, or DeviceUnavailable
PressFail ==
  /\ sess \in {"idle", "done", "error"}
  /\ Room(1)
  /\ \/ ~ModelReady /\ last' = "press-nomodel"
     \/ ModelReady /\ last' = "press-nodevice"
  /\ sess' = "idle"
  /\ buf' = <<>>
  /\ levelsEmitted' = <<>>
  /\ Emit(<<Plain("transcription-error")>>)

\* a press while recording or processing is ignored, not queued
PressIgnored ==
  /\ sess \in {"recording", "processing"}
  /\ last' = "press-ignored"
  /\ UNCHANGED <<sess, buf, levelsEmitted, evq>>

HotkeyPress ==
  /\ PressStart \/ PressFail \/ PressIgnored
  /\ UNCHANGED <<catalogVars, stq, ovVars, stVars>>

\* variant: the newest chunk is put in front of the buffer
AudioChunk_Prepends ==
  /\ sess = "recording"
  /\ Len(buf) < MaxChunks
  /\ \E l \in Levels :
       /\ buf' = <<l>> \o buf
       /\ levelsEmitted' = Append(levelsEmitted, l)
       /\ IF Room(1) THEN Emit(<<Event("audio-level", "", l, 0)>>)
                     ELSE UNCHANGED evq
  /\ last' = "chunk"
  /\ UNCHANGED <<sess, catalogVars, stq, ovVars, stVars>>

\* variant: a level is emitted only when the channel has room for it
AudioChunk_EmitsWhenRoom ==
  /\ sess = "recording"
  /\ Len(buf) < MaxChunks
  /\ \E l \in Levels :
       /\ buf' = Append(buf, l)
       /\ IF Room(1)
          THEN /\ levelsEmitted' = Append(levelsEmitted, l)
               /\ Emit(<<Event("audio-level", "", l, 0)>>)
          ELSE UNCHANGED <<levelsEmitted, evq>>
  /\ last' = "chunk"
  /\ UNCHANGED <<sess, catalogVars, stq, ovVars, stVars>>

\* a captured chunk: appended to the buffer and its level emitted, always
\* (level reporting is fire-and-forget: the emission never waits, and an
\* emitted level is dropped when the window has not kept up with the
\* events before it)
AudioChunk ==
  /\ sess = "recording"
  /\ Len(buf) < MaxChunks
  /\ \E l \in Levels :
       /\ buf' = Append(buf, l)
       /\ levelsEmitted' = Append(levelsEmitted, l)
       /\ IF Room(1) THEN Emit(<<Event("audio-level", "", l, 0)>>)
                     ELSE UNCHANGED evq
  /\ last' = "chunk"
  /\ UNCHANGED <<sess, catalogVars, stq, ovVars, stVars>>

\* capture stops: a short buffer is a tap, otherwise the buffer is handed
\* to the transcription worker
StopCapture(op) ==
  /\ sess = "recording"
  /\ IF Len(buf) < MinChunks
     THEN /\ Room(1)
          /\ sess' = "idle"
          /\ buf' = <<>>
          /\ levelsEmitted' = <<>>
          /\ last' = "tap"
          /\ Emit(<<Plain("recording-stopped")>>)
     ELSE /\ Room(2)
          /\ sess' = "processing"
          /\ buf' = buf
          /\ levelsEmitted' = levelsEmitted
          /\ last' = op
          /\ Emit(<<Plain("recording-stopped"), Plain("transcription-started")>>)
  /\ UNCHANGED <<catalogVars, stq, ovVars, stVars>>

HotkeyRelease == StopCapture("release")

\* the maximum recording duration guard
MaxDurationGuard == Len(buf) >= MaxChunks /\ StopCapture("guard")

\* a failure while recording (the device disappears)
CaptureFailure ==
  /\ sess = "recording"
  /\ Room(2)
  /\ sess' = "error"
  /\ buf' = <<>>
  /\ levelsEmitted' = <<>>
  /\ last' = "capture-failed"
  /\ Emit(<<Plain("recording-stopped"), Plain("transcription-error")>>)
  /\ UNCHANGED <<catalogVars, stq, ovVars, stVars>>

\* processing --(transcription success)--> done
TranscriptionSuccess ==
  /\ sess = "processing"
  /\ Room(1)
  /\ sess' = "done"
  /\ buf' = <<>>
  /\ levelsEmitted' = <<>>
  /\ last' = "transcribed"
  /\ Emit(<<Plain("transcription-complete")>>)
  /\ UNCHANGED <<catalogVars, stq, ovVars, stVars>>

\* processing --(transcription failure)--> error
TranscriptionFailure ==
  /\ sess = "processing"
  /\ Room(1)
  /\ sess' = "error"
  /\ buf' = <<>>
  /\ levelsEmitted' = <<>>
  /\ last' = "transcription-failed"
  /\ Emit(<<Plain("transcription-error")>>)
  /\ UNCHANGED <<catalogVars, stq, ovVars, stVars>>

\* done | error --(timeout)--> idle
ResetTimeout ==
  /\ sess \in {"done", "error"}
  /\ sess' = "idle"
  /\ last' = "timeout"
  /\ UNCHANGED <<buf, levelsEmitted, catalogVars, evq, stq, ovVars, stVars>>

(***************************************************************************)
(* Model Catalog & Download Manager (spec 3, 4.4, 6).                      *)
(*                                                                         *)
(* job[m].n is the number of underlying transfers running for m and        *)
(* job[m].got the bytes received.  A download command resolves with the    *)
(* job's terminal outcome.  The terminal progress event marks the artifact *)
(* present and commits the selection that asked for it (spec 3: "selection *)
(* only commits after the artifact is verified present"; spec 5: the       *)
(* "selection/download-completion update").  Every progress tick is        *)
(* emitted under both event names of spec 6: download-progress             *)
(* (downloaded, total) and model-download-progress (id, downloaded,        *)
(* total).                                                                 *)
(***************************************************************************)
\* the model a command without a model id is about
CurrentSelection == IF activeModel # NoModel THEN activeModel ELSE DefaultModel

ProgressRoom == Len(evq) < MaxBacklog /\ Len(stq) < MaxBacklog

EmitProgress(m, got) ==
  /\ evq' = Append(evq, Event("download-progress", "", got, TotalBytes))
  /\ stq' = Append(stq, Event("model-download-progress", m, got, TotalBytes))

\* variant: every download command starts a transfer of its own
StartOrJoin_AlwaysStarts(m) ==
  [job EXCEPT ![m] = [n |-> job[m].n + 1, got |-> 0]]

\* download(m) on the job table: join the active job, or start a transfer
StartOrJoin(m) ==
  IF job[m].n > 0
  THEN job
  ELSE [job EXCEPT ![m] = [n |-> 1, got |-> 0]]

\* selectModel(m): the new ActiveModel, NoModel standing for the failure
\* ModelNotDownloaded
SelectModel(m) == IF isDownloaded[m] THEN m ELSE NoModel

\* A call record of the Settings panel.
Call(cmd, size, st, val) == [cmd |-> cmd, size |-> size, st |-> st, val |-> val]

\* the calls with every caller waiting on m's job resolved as `outcome`
Settle(calls, m, outcome) ==
  [i \in 1..Len(calls) |->
     IF calls[i].st = "waiting" /\ calls[i].size = m
     THEN [calls[i] EXCEPT !.st = outcome]
     ELSE calls[i]]

SettleOverlay(pc, m, outcome) ==
  IF pc = "dl_wait" /\ m = DefaultModel THEN outcome ELSE pc

\* download(m), received from a caller: the caller's new status
\* ("ok" at once when the artifact is already present)
DownloadStatus(m) == IF isDownloaded[m] THEN "ok" ELSE "waiting"

\* the core's part of download(m): the job table, the selection, the
\* first progress event of a new transfer
DoDownload(m) ==
  IF isDownloaded[m]
  THEN /\ activeModel' = m
       /\ UNCHANGED <<job, isDownloaded, evq, stq>>
  ELSE /\ job' = StartOrJoin(m)
       /\ IF job[m].n = 0
          THEN ProgressRoom /\ EmitProgress(m, 0)
          ELSE UNCHANGED <<evq, stq>>
       /\ UNCHANGED <<activeModel, isDownloaded>>

\* the core handles one call of the Settings panel
CoreHandle(i) ==
  /\ i \in 1..Len(stCalls)
  /\ stCalls[i].st = "sent"
  /\ LET c == stCalls[i] IN
     CASE c.cmd = "set_model_size" ->
            /\ activeModel' = IF SelectModel(c.size) = NoModel
                              THEN activeModel ELSE SelectModel(c.size)
            /\ stCalls' = [stCalls EXCEPT ![i].st =
                             IF SelectModel(c.size) = NoModel THEN "err" ELSE "ok"]
            /\ UNCHANGED <<job, isDownloaded, evq, stq>>
       [] c.cmd = "download_model_size" ->
            /\ DoDownload(c.size)
            /\ stCalls' = [stCalls EXCEPT ![i].st = DownloadStatus(c.size)]
       [] c.cmd = "get_available_models" ->
            /\ stCalls' = [stCalls EXCEPT ![i].st = "ok",
                             ![i].val = {m \in Models : isDownloaded[m]}]
            /\ UNCHANGED <<catalogVars, evq, stq>>
       [] c.cmd = "get_model_info" ->
            /\ stCalls' = [stCalls EXCEPT ![i].st = "ok",
                             ![i].val = {CurrentSelection}]
            /\ UNCHANGED <<catalogVars, evq, stq>>
  /\ UNCHANGED <<devVars, sessionVars, ovVars, stModels, stSelected, stDownloading, stProgress, probe, clicked>>

CoreHandleCall == \E i \in 1..MaxCalls : CoreHandle(i)

\* the core answers the Overlay's is_model_ready
CoreIsModelReady ==
  /\ ovPc = "query"
  /\ ovPc' = IF ModelReady THEN "ready_true" ELSE "ready_false"
  /\ UNCHANGED <<regVars, coreVars, evq, stq, ovState, ovModelReady, ovAudioLevel,
                 ovProgress, stVars>>

\* the core handles the Overlay's download_whisper_model
CoreDownloadWhisper ==
  /\ ovPc = "dl_sent"
  /\ DoDownload(CurrentSelection)
  /\ ovPc' = IF DownloadStatus(CurrentSelection) = "ok" THEN "dl_ok" ELSE "dl_wait"
  /\ UNCHANGED <<regVars, sessionVars, ovState, ovModelReady, ovAudioLevel, ovProgress, stVars>>

\* one progress tick of m's transfer; the terminal one ends the job
DownloadTick(m) ==
  /\ job[m].n > 0
  /\ job[m].got < TotalBytes
  /\ ProgressRoom
  /\ EmitProgress(m, job[m].got + 1)
  /\ IF job[m].got + 1 = TotalBytes
     THEN /\ isDownloaded' = [isDownloaded EXCEPT ![m] = TRUE]
          /\ activeModel' = m
          /\ job' = [job EXCEPT ![m] = [n |-> 0, got |-> 0]]
          /\ stCalls' = Settle(stCalls, m, "ok")
          /\ ovPc' = SettleOverlay(ovPc, m, "dl_ok")
     ELSE /\ job' = [job EXCEPT ![m].got = job[m].got + 1]
          /\ UNCHANGED <<isDownloaded, activeModel, stCalls, ovPc>>
  /\ UNCHANGED <<devVars, regVars, sessionVars, ovState, ovModelReady, ovAudioLevel, ovProgress,
                 stModels, stSelected, stDownloading, stProgress, probe, clicked>>

DownloadProgress == \E m \in Models : DownloadTick(m)

\* the transfer of m fails: the job ends, the partial artifact is dropped,
\* every caller gets the error, nothing is retried
DownloadFail(m) ==
  /\ job[m].n > 0
  /\ job' = [job EXCEPT ![m] = [n |-> 0, got |-> 0]]
  /\ stCalls' = Settle(stCalls, m, "err")
  /\ ovPc' = SettleOverlay(ovPc, m, "dl_err")
  /\ UNCHANGED <<devVars, regVars, sessionVars, isDownloaded, activeModel, evq, stq, ovState,
                 ovModelReady, ovAudioLevel, ovProgress,
                 stModels, stSelected, stDownloading, stProgress, probe, clicked>>

DownloadFailure == \E m \in Models : DownloadFail(m)

\* set_model_size(m) sent by a client of the command bridge other than the
\* Settings panel, and answered at once
ApiSetModelSize ==
  /\ \E m \in Models :
       /\ activeModel' = IF SelectModel(m) = NoModel THEN activeModel ELSE SelectModel(m)
       /\ probe' = <<m, IF SelectModel(m) = NoModel THEN "ModelNotDownloaded" ELSE "ok">>
  /\ UNCHANGED <<devVars, sessionVars, isDownloaded, job, evq, stq, ovVars,
                 stModels, stSelected, stDownloading, stProgress, stCalls, clicked>>

(***************************************************************************)
(* Stopping the application (spec 5, Cancellation).  The process ends:     *)
(* every download job is cancelled and what it had received is discarded,  *)
(* a recording under way is dropped with its buffer, nothing is emitted.   *)
(* The windows end with the process; their state is left as it was.        *)
(***************************************************************************)
\* the application has not been stopped
Running == last # "stopped"

\* variant: a recording under way is flushed to the transcription worker
StopApplication_FlushesRecording ==
  /\ Running
  /\ job' = [m \in Models |-> [n |-> 0, got |-> 0]]
  /\ IF sess = "recording" /\ Len(buf) >= MinChunks
     THEN sess' = "processing" /\ UNCHANGED <<buf, levelsEmitted>>
     ELSE sess' = "idle" /\ buf' = <<>> /\ levelsEmitted' = <<>>
  /\ last' = "stopped"
  /\ UNCHANGED <<isDownloaded, activeModel, evq, stq, ovVars, stVars>>

StopApplication ==
  /\ Running
  /\ job' = [m \in Models |-> [n |-> 0, got |-> 0]]
  /\ sess' = "idle"
  /\ buf' = <<>>
  /\ levelsEmitted' = <<>>
  /\ last' = "stopped"
  /\ UNCHANGED <<isDownloaded, activeModel, evq, stq, ovVars, stVars>>

(***************************************************************************)
(* Overlay: the mount effect.                                              *)
(***************************************************************************)
\* variant: the then-callback invokes the download whatever the answer
OverlayReadyThen_AlwaysDownloads ==
  /\ ovPc \in {"ready_true", "ready_false"}
  /\ ovModelReady' = (ovPc = "ready_true")
  /\ ovPc' = "dl_sent"
  /\ UNCHANGED <<regVars, coreVars, evq, stq, ovState, ovAudioLevel, ovProgress, stVars>>

\* invoke("is_model_ready").then((ready) => ...)
OverlayReadyThen ==
  /\ ovPc \in {"ready_true", "ready_false"}
  /\ ovModelReady' = (ovPc = "ready_true")
  /\ ovPc' = IF ovPc = "ready_true" THEN "done" ELSE "dl_sent"
  /\ UNCHANGED <<regVars, coreVars, evq, stq, ovState, ovAudioLevel, ovProgress, stVars>>

\* invoke("download_whisper_model").catch(console.error)
OverlayDownloadSettled ==
  /\ ovPc \in {"dl_ok", "dl_err"}
  /\ ovPc' = "done"
  /\ UNCHANGED <<regVars, coreVars, evq, stq, ovState, ovModelReady, ovAudioLevel,
                 ovProgress, stVars>>

(***************************************************************************)
(* Overlay: the listeners effect and its cleanup.                          *)
(*                                                                         *)
(* ovReg[n] is "pending" while listen(n, ...) has not resolved, "held"     *)
(* once its unlisten function is in the effect's `unlisteners` array,      *)
(* "released" once the cleanup has called it, and "leaked" when the        *)
(* promise resolved after the cleanup ran: the unlisten function is pushed *)
(* onto an array that nothing iterates any more.                           *)
(***************************************************************************)
\* listen(n, ...).then((unlisten) => unlisteners.push(unlisten))
ListenResolved(n) ==
  /\ ovReg[n] = "pending"
  /\ ovReg' = [ovReg EXCEPT ![n] = IF ovMounted THEN "held" ELSE "leaked"]
  /\ UNCHANGED <<coreVars, evq, stq, ovState, ovModelReady, ovAudioLevel,
                 ovProgress, ovPc, ovMounted, stVars>>

ListenResolve == \E n \in ListenerNames : ListenResolved(n)

\* unmount: the cleanup runs unlisteners.forEach((unlisten) => unlisten())
OverlayUnmount ==
  /\ ovMounted
  /\ ovMounted' = FALSE
  /\ ovReg' = [n \in ListenerNames |->
                IF ovReg[n] = "held" THEN "released" ELSE ovReg[n]]
  /\ UNCHANGED <<coreVars, evq, stq, ovState, ovModelReady, ovAudioLevel,
                 ovProgress, ovPc, stVars>>

(***************************************************************************)
(* Settings panel.                                                         *)
(***************************************************************************)
RemoveAt(s, i) == SubSeq(s, 1, i - 1) \o SubSeq(s, i + 1, Len(s))

\* variant: every click selects, downloaded or not
HandleModelSelect_AlwaysSelects(size) ==
  /\ stCalls' = Append(stCalls, Call("set_model_size", size, "sent", {}))
  /\ UNCHANGED stDownloading

\* handleModelSelect(size), up to its await
HandleModelSelect(size) ==
  IF size \in stModels.down
  THEN /\ stCalls' = Append(stCalls, Call("set_model_size", size, "sent", {}))
       /\ UNCHANGED stDownloading
  ELSE /\ stDownloading' = size
       /\ stCalls' = Append(stCalls, Call("download_model_size", size, "sent", {}))

\* a click on the button of model `size` (disabled while downloading = size)
SettingsClick ==
  /\ stModels.loaded
  /\ Len(stCalls) < MaxCalls
  /\ \E size \in Models :
       /\ stDownloading # size
       /\ HandleModelSelect(size)
       /\ clicked' = size
  /\ UNCHANGED <<devVars, coreVars, evq, stq, ovVars, stModels, stSelected, stProgress, probe>>

\* what follows the await of a resolved call
Continue(c) ==
  CASE c.cmd \in {"set_model_size", "download_model_size"} /\ c.st = "ok" ->
         stSelected' = c.size /\ UNCHANGED stModels
    [] c.cmd = "get_model_info" /\ c.st = "ok" ->
         stSelected' = (CHOOSE m \in c.val : TRUE) /\ UNCHANGED stModels
    [] c.cmd = "get_available_models" /\ c.st = "ok" ->
         stModels' = [loaded |-> TRUE, down |-> c.val] /\ UNCHANGED stSelected
    [] OTHER -> UNCHANGED <<stModels, stSelected>>

\* the response of one call arrives and its continuation runs
SettingsResume ==
  /\ \E i \in 1..Len(stCalls) :
       /\ stCalls[i].st \in {"ok", "err"}
       /\ Continue(stCalls[i])
       /\ stCalls' = RemoveAt(stCalls, i)
  /\ UNCHANGED <<devVars, coreVars, evq, stq, ovVars, stDownloading, stProgress, probe, clicked>>

\* the model-download-progress listener
SettingsDeliver ==
  /\ stq # <<>>
  /\ LET ev == Head(stq) IN
       IF ev.a >= ev.b
       THEN /\ Len(stCalls) < MaxCalls
            /\ stDownloading' = NoModel
            /\ stProgress' = <<>>
            /\ stCalls' = Append(stCalls, Call("get_available_models", "", "sent", {}))
       ELSE /\ stProgress' = <<ev.size, ev.a, ev.b>>
            /\ UNCHANGED <<stDownloading, stCalls>>
  /\ stq' = Tail(stq)
  /\ UNCHANGED <<devVars, coreVars, evq, ovVars, stModels, stSelected, probe, clicked>>

(***************************************************************************)
(* Settings panel: the Audio Input select.                                 *)
(*                                                                         *)
(* A device call records the option chosen (its label), the argument sent  *)
(* or the value answered, and the devices answered.                        *)
(***************************************************************************)
DevCall(cmd, choice, arg, st) ==
  [cmd |-> cmd, choice |-> choice, arg |-> arg, st |-> st, list |-> {}]

\* the labels of the options rendered
DeviceOptions == {SystemDefault} \cup stDevices

\* <option value=...>: "default" for System Default, else the device name
OptionValue(label) == IF label = SystemDefault THEN "default" ELSE label

\* const device = deviceName === "default" ? null : deviceName
DeviceArgument(deviceName) == IF deviceName = "default" THEN NoDevice ELSE deviceName

\* onChange of the select: handleDeviceChange(e.target.value), up to its await
HandleDeviceChange ==
  /\ Len(devCalls) < MaxCalls
  /\ \E label \in DeviceOptions :
       devCalls' = Append(devCalls,
         DevCall("set_audio_device", label, DeviceArgument(OptionValue(label)), "sent"))
  /\ UNCHANGED <<coreVars, evq, stq, ovVars, stModels, stSelected, stDownloading,
                 stProgress, stCalls, probe, clicked, systemDevices, deviceSelection,
                 stDevices, stCurrentDevice>>

\* the core handles one device call: set_audio_device commits the selection
\* or fails and leaves it; the getters answer
CoreHandleDevice ==
  /\ \E i \in 1..Len(devCalls) :
       /\ devCalls[i].st = "sent"
       /\ LET c == devCalls[i] IN
          CASE c.cmd = "set_audio_device" ->
                 \/ /\ deviceSelection' = c.arg
                    /\ devCalls' = [devCalls EXCEPT ![i].st = "ok"]
                 \/ /\ devCalls' = [devCalls EXCEPT ![i].st = "err"]
                    /\ UNCHANGED deviceSelection
            [] c.cmd = "get_audio_devices" ->
                 /\ devCalls' = [devCalls EXCEPT ![i].st = "ok", ![i].list = systemDevices]
                 /\ UNCHANGED deviceSelection
            [] c.cmd = "get_current_device" ->
                 /\ devCalls' = [devCalls EXCEPT ![i].st = "ok", ![i].arg = deviceSelection]
                 /\ UNCHANGED deviceSelection
  /\ UNCHANGED <<coreVars, evq, stq, ovVars, stModels, stSelected, stDownloading,
                 stProgress, stCalls, probe, clicked, systemDevices, stDevices, stCurrentDevice>>

\* what follows a resolved device call: setCurrentDevice(device) after the
\* await of handleDeviceChange, .then(setDevices), .then(setCurrentDevice);
\* a rejected call sets nothing
DeviceContinue(c) ==
  CASE c.cmd \in {"set_audio_device", "get_current_device"} /\ c.st = "ok" ->
         stCurrentDevice' = c.arg /\ UNCHANGED stDevices
    [] c.cmd = "get_audio_devices" /\ c.st = "ok" ->
         stDevices' = c.list /\ UNCHANGED stCurrentDevice
    [] OTHER -> UNCHANGED <<stDevices, stCurrentDevice>>

DeviceResume ==
  /\ \E i \in 1..Len(devCalls) :
       /\ devCalls[i].st \in {"ok", "err"}
       /\ DeviceContinue(devCalls[i])
       /\ devCalls' = RemoveAt(devCalls, i)
  /\ UNCHANGED <<coreVars, evq, stq, ovVars, stModels, stSelected, stDownloading,
                 stProgress, stCalls, probe, clicked, systemDevices, deviceSelection>>

(***************************************************************************)
(* Initial states: the catalog as found on disk at process start, the      *)
(* Overlay and the Settings panel just mounted.                            *)
(***************************************************************************)
\* everything but the state of the Overlay's listen() registrations
InitBase ==
  /\ sess = "idle"
  /\ buf = <<>>
  /\ levelsEmitted = <<>>
  /\ last = "none"
  /\ isDownloaded \in [Models -> BOOLEAN]
  /\ activeModel \in IF \E m \in Models : isDownloaded[m]
                     THEN {m \in Models : isDownloaded[m]}
                     ELSE {NoModel}
  /\ job = [m \in Models |-> [n |-> 0, got |-> 0]]
  /\ evq = <<>>
  /\ stq = <<>>
  /\ ovState = "idle"
  /\ ovModelReady = FALSE
  /\ ovAudioLevel = 0
  /\ ovProgress = <<>>
  /\ ovPc = "query"
  /\ ovMounted = TRUE
  /\ stModels = [loaded |-> FALSE, down |-> {}]
  /\ stSelected = DefaultModel
  /\ stDownloading = NoModel
  /\ stProgress = <<>>
  /\ stCalls = <<Call("get_available_models", "", "sent", {}),
                 Call("get_model_info", "", "sent", {})>>
  /\ probe = <<>>
  /\ clicked = NoModel
  /\ systemDevices = DeviceNames
  /\ deviceSelection = NoDevice
  /\ stDevices = {}
  /\ stCurrentDevice = NoDevice
  /\ devCalls = <<DevCall("get_audio_devices", "", NoDevice, "sent"),
                  DevCall("get_current_device", "", NoDevice, "sent")>>

\* the Overlay once its seven listen() calls have resolved; the session and
\* catalog specifications start here
Init == InitBase /\ ovReg = [n \in ListenerNames |-> "held"]

\* the Overlay right after its listeners effect ran: listen() called for
\* each event, no promise resolved yet
InitMount == InitBase /\ ovReg = [n \in ListenerNames |-> "pending"]

SessionNext ==
  \/ HotkeyPress
  \/ AudioChunk
  \/ HotkeyRelease
  \/ MaxDurationGuard
  \/ CaptureFailure
  \/ TranscriptionSuccess
  \/ TranscriptionFailure
  \/ ResetTimeout
  \/ OverlayDeliver

SpecSession == Init /\ [][SessionNext]_vars

\* The audio callback, the transcription worker, the display timer and the
\* event loop of the Overlay's webview keep running; the user need not act.
FairSession ==
  /\ SpecSession
  /\ WF_vars(AudioChunk)
  /\ WF_vars(MaxDurationGuard)
  /\ WF_vars(TranscriptionSuccess \/ TranscriptionFailure)
  /\ WF_vars(ResetTimeout)
  /\ WF_vars(OverlayDeliver)

CatalogNext ==
  \/ CoreHandleCall
  \/ CoreIsModelReady
  \/ CoreDownloadWhisper
  \/ DownloadProgress
  \/ DownloadFailure
  \/ OverlayReadyThen
  \/ OverlayDownloadSettled
  \/ OverlayDeliver
  \/ SettingsClick
  \/ SettingsResume
  \/ SettingsDeliver

SpecCatalog == Init /\ [][CatalogNext]_vars

\* The core driven by the Overlay and by a client that sends set_model_size
\* for any model id; the Settings panel stays as mounted, nothing is clicked.
CoreNext ==
  \/ CoreHandleCall
  \/ CoreIsModelReady
  \/ CoreDownloadWhisper
  \/ DownloadProgress
  \/ DownloadFailure
  \/ ApiSetModelSize
  \/ OverlayReadyThen
  \/ OverlayDownloadSettled
  \/ OverlayDeliver
  \/ SettingsResume
  \/ SettingsDeliver

SpecCore == Init /\ [][CoreNext]_vars

LifecycleNext ==
  \/ ListenResolve
  \/ OverlayUnmount

\* mount and unmount of the Overlay, the core idle
SpecLifecycle == InitMount /\ [][LifecycleNext]_vars

\* A later moment of the same run: a model other than the default one is
\* downloaded and active, the Overlay's mount effect is over (the answer was
\* true), the Settings panel has its model list and no call in flight.
InitRunning ==
  /\ sess = "idle"
  /\ buf = <<>>
  /\ levelsEmitted = <<>>
  /\ last = "none"
  /\ isDownloaded = [m \in Models |-> m # DefaultModel]
  /\ activeModel \in Models \ {DefaultModel}
  /\ job = [m \in Models |-> [n |-> 0, got |-> 0]]
  /\ evq = <<>>
  /\ stq = <<>>
  /\ ovState = "idle"
  /\ ovModelReady = TRUE
  /\ ovAudioLevel = 0
  /\ ovProgress = <<>>
  /\ ovPc = "done"
  /\ ovMounted = TRUE
  /\ ovReg = [n \in ListenerNames |-> "held"]
  /\ stModels = [loaded |-> TRUE, down |-> Models \ {DefaultModel}]
  /\ stSelected = activeModel
  /\ stDownloading = NoModel
  /\ stProgress = <<>>
  /\ stCalls = <<>>
  /\ probe = <<>>
  /\ clicked = NoModel
  /\ systemDevices = DeviceNames
  /\ deviceSelection = NoDevice
  /\ stDevices = DeviceNames
  /\ stCurrentDevice = NoDevice
  /\ devCalls = <<>>

\* recording cycles while the Settings panel selects and downloads models
BusyNext ==
  \/ SessionNext
  \/ SettingsClick
  \/ CoreHandleCall
  \/ DownloadProgress
  \/ DownloadFailure
  \/ SettingsResume
  \/ SettingsDeliver

SpecBusy == InitRunning /\ [][BusyNext]_vars

DeviceNext ==
  \/ HandleDeviceChange
  \/ CoreHandleDevice
  \/ DeviceResume

\* the Audio Input select of the Settings panel and the core's device commands
SpecDevice == Init /\ [][DeviceNext]_vars

\* recording attempts during and after the Overlay's first-run download
FirstRunNext ==
  \/ SessionNext
  \/ CoreHandleCall
  \/ CoreIsModelReady
  \/ CoreDownloadWhisper
  \/ DownloadProgress
  \/ DownloadFailure
  \/ OverlayReadyThen
  \/ OverlayDownloadSettled
  \/ SettingsResume
  \/ SettingsDeliver

SpecFirstRun == Init /\ [][FirstRunNext]_vars

\* the Settings panel selecting and downloading models, no transfer failing
SelectNext ==
  \/ SettingsClick
  \/ CoreHandleCall
  \/ DownloadProgress
  \/ OverlayDeliver
  \/ SettingsResume
  \/ SettingsDeliver

SpecSelect == InitRunning /\ [][SelectNext]_vars

\* device changes made once the panel has its device list
SpecDeviceChange == InitRunning /\ [][DeviceNext]_vars

\* the Overlay alone, its listeners called with events in any order
OverlayEventsNext == EmitEvent

SpecOverlayEvents == Init /\ [][OverlayEventsNext]_vars

\* recording cycles and downloads, until the application is stopped
StopNext ==
  \/ Running /\ BusyNext
  \/ StopApplication

SpecStop == InitRunning /\ [][StopNext]_vars

Next ==
  \/ Running /\ (SessionNext \/ CatalogNext \/ DeviceNext \/ ApiSetModelSize \/ LifecycleNext)
  \/ StopApplication

Spec == Init /\ [][Next]_vars

(***************************************************************************)
(* Properties of the recording cycle.                                      *)
(***************************************************************************)
\* the events a step appends to the Overlay's channel
NewEvents ==
  IF Len(evq') > Len(evq) THEN SubSeq(evq', Len(evq) + 1, Len(evq')) ELSE <<>>

Emitted(name) == \E i \in 1..Len(NewEvents) : NewEvents[i].name = name

\* the step delivers an event of this name to its listener in the Overlay
Delivered(name) ==
  /\ evq # <<>>
  /\ evq' = Tail(evq)
  /\ Head(evq).name = name
  /\ Registered(name)

EventNames == LifecycleEvents \cup {"audio-level", "download-progress"}

\* the states the Overlay's listeners can lead to from the states S
RECURSIVE OverlayClosure(_)
OverlayClosure(S) ==
  LET T == S \cup {OverlayStateOn(n, s) : n \in EventNames, s \in S}
  IN IF T = S THEN S ELSE OverlayClosure(T)

OverlayReach(s) == OverlayClosure({s})

\* C1: the session enters recording only from idle, done or error, and
\* recording-started is emitted only then: a press while recording or
\* processing changes neither the state nor the buffer and emits nothing;
\* the Overlay's state becomes recording only by the delivery of a
\* recording-started event.
C1_NoReentry ==
  [][ /\ (sess' = "recording" /\ sess # "recording")
           => sess \in {"idle", "done", "error"}
      /\ Emitted("recording-started")
           => sess \in {"idle", "done", "error"} /\ sess' = "recording"
      /\ (sess \in {"recording", "processing"} /\ HotkeyPress)
           => UNCHANGED <<sess, buf, evq>>
      /\ (ovState' = "recording" /\ ovState # "recording")
           => Delivered("recording-started")
    ]_vars

\* a press was ignored during processing, the Overlay showing it
C1_Witness ==
  last = "press-ignored" /\ sess = "processing" /\ ovState = "processing"

\* C2: after the release of a recording shorter than the minimum duration
\* the session is idle, no transcription-started event is in flight, and
\* the Overlay, once it has received every emitted event, is idle.
C2_TapReturnsToIdle ==
  last = "tap" =>
    /\ sess = "idle"
    /\ \A i \in 1..Len(evq) : evq[i].name # "transcription-started"
    /\ evq = <<>> => ovState = "idle"

\* C3: done and error are left by the timeout, and no reachable state is one
\* from which idle cannot be reached again, neither the session's nor the
\* Overlay's.
C3_Recoverable ==
  /\ sess \in {"done", "error"} => ENABLED ResetTimeout
  /\ (sess = "idle" /\ Room(1)) => ENABLED HotkeyPress
  /\ "idle" \in OverlayReach(ovState)

\* C4: processing is left only to done with exactly transcription-complete
\* emitted, or to error with exactly transcription-error; a failure while
\* recording leads to error with recording-stopped and transcription-error;
\* a terminal event is emitted only by such a step, so never twice for a
\* cycle; the Overlay shows done after transcription-complete and error
\* after transcription-error; and the session does not stay in recording or
\* processing forever.
C4_OneTerminalOutcome ==
  /\ [][ /\ (sess = "processing" /\ sess' # "processing") =>
              \/ sess' = "done" /\ NewEvents = <<Plain("transcription-complete")>>
              \/ sess' = "error" /\ NewEvents = <<Plain("transcription-error")>>
         /\ (sess = "recording" /\ sess' \notin {"recording", "processing", "idle"}) =>
              /\ sess' = "error"
              /\ NewEvents = <<Plain("recording-stopped"), Plain("transcription-error")>>
         /\ Emitted("transcription-complete") =>
              sess = "processing" /\ sess' = "done"
         /\ Emitted("transcription-error") =>
              \/ sess \in {"recording", "processing"} /\ sess' = "error"
              \/ sess \in {"idle", "done", "error"} /\ sess' = "idle"
         /\ Delivered("transcription-complete") => ovState' = "done"
         /\ Delivered("transcription-error") => ovState' = "error"
       ]_vars
  /\ (sess = "processing") ~> (sess \in {"done", "error"})
  /\ (sess = "recording") ~> (sess # "recording")

\* a transcription failed and the Overlay shows the error
C4_Witness ==
  last = "transcription-failed" /\ sess = "error" /\ evq = <<>> /\ ovState = "error"

\* C5: a press that cannot start a recording (no model active and
\* downloaded, or the device unavailable) leaves the session idle and emits
\* exactly one error event; while no model is ready the session never
\* leaves idle, neither recording-started nor transcription-started is
\* ever emitted, and the Overlay shows neither recording nor processing.
C5_NoModelNoRecording ==
  [][ /\ (HotkeyPress /\ sess \in {"idle", "done", "error"} /\ ~ModelReady) =>
           sess' = "idle" /\ NewEvents = <<Plain("transcription-error")>>
      /\ (HotkeyPress /\ last' = "press-nodevice") =>
           sess' = "idle" /\ NewEvents = <<Plain("transcription-error")>>
      /\ ~ModelReady =>
           /\ sess' = "idle"
           /\ ~Emitted("recording-started")
           /\ ~Emitted("transcription-started")
           /\ ovState' \in {"idle", "error"}
    ]_vars

\* the hotkey was pressed with no model, and the Overlay got the error
C5_Witness ==
  last = "press-nomodel" /\ ~ModelReady /\ sess = "idle" /\ evq = <<>>
    /\ ovState = "error"

(***************************************************************************)
(* Properties of the model catalog and of downloads.                       *)
(***************************************************************************)
\* the Settings calls waiting on m's job
Waiting(m) ==
  {i \in 1..Len(stCalls) : stCalls[i].st = "waiting" /\ stCalls[i].size = m}

OverlayWaiting(m) == ovPc = "dl_wait" /\ m = DefaultModel

\* the step is the core handling the i-th Settings call
Handled(i) ==
  /\ i \in 1..Len(stCalls)
  /\ Len(stCalls') = Len(stCalls)
  /\ stCalls[i].st = "sent"
  /\ stCalls'[i].st # "sent"

\* C6: no model id ever has more than one transfer running; a download
\* command received while the id's job is active makes its caller wait on
\* that job and leaves the job and the channels as they are; every waiting
\* caller is attached to an active job, and the step that ends the job gives
\* all of them, Settings calls and the Overlay alike, the same outcome.
C6_OneTransferPerModel ==
  /\ [](\A m \in Models :
          /\ job[m].n <= 1
          /\ (Waiting(m) # {} \/ OverlayWaiting(m)) => job[m].n = 1)
  /\ [][\A m \in Models :
          /\ \A i \in 1..Len(stCalls) :
               (Handled(i) /\ stCalls[i].cmd = "download_model_size"
                  /\ stCalls[i].size = m /\ job[m].n > 0) =>
                 /\ stCalls'[i].st = "waiting"
                 /\ UNCHANGED <<job, evq, stq>>
          /\ (ovPc = "dl_sent" /\ ovPc' # ovPc /\ m = CurrentSelection /\ job[m].n > 0) =>
                 ovPc' = "dl_wait" /\ UNCHANGED <<job, evq, stq>>
          /\ (job[m].n > 0 /\ job'[m].n = 0) =>
               \E o \in {"ok", "err"} :
                 /\ \A i \in Waiting(m) : stCalls'[i].st = o
                 /\ OverlayWaiting(m) => ovPc' = IF o = "ok" THEN "dl_ok" ELSE "dl_err"
       ]_vars

\* the Overlay and a Settings call wait on the same transfer
C6_Witness ==
  /\ job[DefaultModel] = [n |-> 1, got |-> 0]
  /\ ovPc = "dl_wait"
  /\ Waiting(DefaultModel) # {}

\* C7 as stated: a selection made in the Settings panel succeeds for a
\* downloaded model and, for a model that is not downloaded, fails and
\* never asks for a download.
C7_SelectionNeverDownloads ==
  \A i \in 1..Len(stCalls) :
    stCalls[i].cmd \in {"set_model_size", "download_model_size"} =>
      /\ stCalls[i].cmd = "set_model_size"
      /\ stCalls[i].st = "ok" => isDownloaded[stCalls[i].size]

\* C7 as amended: the panel sends set_model_size only for a model that is
\* downloaded, and that command succeeds and commits the model as active;
\* for a model it lists as not downloaded the panel sends
\* download_model_size instead, which starts or joins a download and leaves
\* the active model unchanged; the active model only ever changes to a
\* model whose artifact is present.
C7_SelectCommitsOrDownloads ==
  /\ [](\A i \in 1..Len(stCalls) :
          stCalls[i].cmd = "set_model_size" =>
            isDownloaded[stCalls[i].size] /\ stCalls[i].st \in {"sent", "ok"})
  /\ [][ /\ \A i \in 1..Len(stCalls) :
              /\ (Handled(i) /\ stCalls[i].cmd = "set_model_size") =>
                   stCalls'[i].st = "ok" /\ activeModel' = stCalls[i].size
              /\ (Handled(i) /\ stCalls[i].cmd = "download_model_size"
                    /\ ~isDownloaded[stCalls[i].size]) =>
                   /\ stCalls'[i].st = "waiting"
                   /\ job'[stCalls[i].size].n = 1
                   /\ UNCHANGED <<activeModel, isDownloaded>>
         /\ Len(stCalls') > Len(stCalls) =>
              LET c == stCalls'[Len(stCalls')] IN
                /\ c.cmd = "set_model_size" => c.size \in stModels.down
                /\ c.cmd = "download_model_size" =>
                     c.size \notin stModels.down /\ stDownloading' = c.size
         /\ activeModel' # activeModel => isDownloaded'[activeModel']
       ]_vars

\* one selection was committed by set_model_size while another waits for
\* its download
C7_Witness ==
  \E i, j \in 1..Len(stCalls) :
    /\ stCalls[i].cmd = "set_model_size" /\ stCalls[i].st = "ok"
    /\ activeModel = stCalls[i].size
    /\ stCalls[j].cmd = "download_model_size" /\ stCalls[j].st = "waiting"

\* C8: the active model is one whose artifact is downloaded, and so is the
\* model the Settings panel marks as selected once it lists the models.
C8_SelectedIsDownloaded ==
  /\ activeModel # NoModel => isDownloaded[activeModel]
  /\ stModels.loaded => isDownloaded[stSelected]

\* C9: isDownloaded becomes true only in the step that emits the terminal
\* progress event of the model's job; the Overlay's modelReady becomes true
\* only on a terminal progress event or on a true answer of is_model_ready,
\* so never while no artifact is complete; set_model_size for a model that
\* is not downloaded fails and leaves the active model unchanged, and the
\* active model is always a downloaded one.
C9_ReadyOnlyAtTerminalEvent ==
  /\ [][ /\ \A m \in Models :
              (~isDownloaded[m] /\ isDownloaded'[m]) =>
                /\ job[m].n > 0 /\ job[m].got + 1 = TotalBytes
                /\ Emitted("download-progress")
                /\ evq'[Len(evq')].a = TotalBytes /\ evq'[Len(evq')].b = TotalBytes
         /\ (~ovModelReady /\ ovModelReady') =>
              \/ Delivered("download-progress") /\ Head(evq).a >= Head(evq).b
              \/ ovPc = "ready_true"
         /\ (probe' # probe /\ ~isDownloaded[probe'[1]]) =>
              probe'[2] = "ModelNotDownloaded" /\ UNCHANGED activeModel
       ]_vars
  /\ [](ovModelReady => \E m \in Models : isDownloaded[m])
  /\ [](activeModel # NoModel => isDownloaded[activeModel])

\* the download of the default model is under way, the Overlay has its
\* first progress event and is not ready, and selecting the model failed
C9_Witness ==
  /\ job[DefaultModel].n = 1
  /\ ~isDownloaded[DefaultModel]
  /\ probe = <<DefaultModel, "ModelNotDownloaded">>
  /\ ovProgress = <<0, TotalBytes>>
  /\ ~ovModelReady

\* C10: when the download of a model the Settings panel asked for is over
\* without its artifact (which only a failed transfer leaves behind: no job
\* for it, no call of the panel for it in flight), the model is still not
\* downloaded, nothing runs for it, and its button is enabled again, so that
\* the download can be asked for anew.
C10_CanReinvokeAfterFailure ==
  \A m \in Models :
    (/\ stModels.loaded
     /\ ~isDownloaded[m]
     /\ job[m].n = 0
     /\ \A i \in 1..Len(stCalls) : stCalls[i].size # m) =>
       stDownloading # m

\* the download-progress events waiting in the Overlay's channel, in order
ProgressIn(q) == SelectSeq(q, LAMBDA e : e.name \in {"download-progress", "model-download-progress"})

\* C11: with one download job (the one the Overlay asks for at mount), the
\* progress events in each channel are in non-decreasing order of
\* `downloaded`, none is ahead of the job, all carry the same `total`, and
\* the values the Overlay and the Settings panel hold never decrease and
\* keep their total; what a window holds is never ahead of an event still
\* to be delivered to it.
C11_ProgressMonotone ==
  /\ [](\A q \in {evq, stq} :
          LET pq == ProgressIn(q) IN
            /\ \A i \in 1..Len(pq) :
                 /\ pq[i].b = TotalBytes
                 /\ pq[i].a <= TotalBytes
                 /\ job[DefaultModel].n > 0 => pq[i].a <= job[DefaultModel].got
            /\ \A i, j \in 1..Len(pq) : i < j => pq[i].a <= pq[j].a)
  /\ [](\A i \in 1..Len(ProgressIn(evq)) :
          ovProgress # <<>> => ovProgress[1] <= ProgressIn(evq)[i].a)
  /\ [](\A i \in 1..Len(ProgressIn(stq)) :
          stProgress # <<>> => stProgress[2] <= ProgressIn(stq)[i].a)
  /\ [][ /\ (ovProgress # <<>> /\ ovProgress' # <<>>) =>
              ovProgress'[1] >= ovProgress[1] /\ ovProgress'[2] = ovProgress[2]
         /\ (stProgress # <<>> /\ stProgress' # <<>>) =>
              /\ stProgress'[1] = stProgress[1]
              /\ stProgress'[2] >= stProgress[2]
              /\ stProgress'[3] = stProgress[3]
         /\ \A m \in Models :
              (job[m].n > 0 /\ job'[m].n > 0) => job'[m].got >= job[m].got
       ]_vars

\* both windows hold the second progress value of the job
C11_Witness ==
  /\ ovProgress = <<1, TotalBytes>>
  /\ stProgress = <<DefaultModel, 1, TotalBytes>>
  /\ job[DefaultModel].n = 1

(***************************************************************************)
(* The event sequence of a cycle and what the Overlay makes of it.         *)
(***************************************************************************)
\* the session events waiting in a channel, in order
SessionIn(q) ==
  SelectSeq(q, LAMBDA e : e.name \in LifecycleEvents \cup {"audio-level"})

\* the event names that may come right after `name` in the Overlay's channel
Follows(name) ==
  CASE name \in {"recording-started", "audio-level"} ->
         {"audio-level", "recording-stopped"}
    [] name = "recording-stopped" ->
         {"transcription-started", "transcription-error", "recording-started"}
    [] name = "transcription-started" ->
         {"transcription-complete", "transcription-error"}
    [] OTHER -> {"recording-started", "transcription-error"}

\* k times the name
RECURSIVE Repeat(_, _)
Repeat(name, k) == IF k = 0 THEN <<>> ELSE <<name>> \o Repeat(name, k - 1)

\* the events of a normal cycle with k chunks, ending with `end`
NormalCycle(k, end) ==
  <<"recording-started">> \o Repeat("audio-level", k)
    \o <<"recording-stopped", "transcription-started", end>>

\* the states the Overlay is in after each event of the sequence, from s
RECURSIVE OverlayRun(_, _)
OverlayRun(names, s) ==
  IF names = <<>> THEN <<>>
  ELSE LET t == OverlayStateOn(Head(names), s) IN <<t>> \o OverlayRun(Tail(names), t)

\* a sequence without its immediate repetitions
RECURSIVE Compress(_)
Compress(seq) ==
  IF Len(seq) <= 1 THEN seq
  ELSE IF seq[1] = seq[2] THEN Compress(Tail(seq))
       ELSE <<seq[1]>> \o Compress(Tail(seq))

\* C12: a cycle that reaches processing emits recording-started on entering
\* recording, only audio-level while recording, recording-stopped followed
\* by transcription-started on entering processing, and exactly one of
\* transcription-complete / transcription-error on leaving it, and the
\* Overlay's channel holds the events in that order.  Fed the events of a
\* normal cycle, from any state, the Overlay goes recording, processing,
\* then done or error and through no other state; once the events of the
\* session's last step are delivered the Overlay shows the state they name.
C12_NormalCycleOrder ==
  /\ [](LET q == SessionIn(evq) IN
          \A i \in 1..(Len(q) - 1) : q[i + 1].name \in Follows(q[i].name))
  /\ [](\A s \in SessionStates, k \in 0..MaxChunks :
          /\ Compress(OverlayRun(NormalCycle(k, "transcription-complete"), s))
               = <<"recording", "processing", "done">>
          /\ Compress(OverlayRun(NormalCycle(k, "transcription-error"), s))
               = <<"recording", "processing", "error">>)
  /\ [](evq = <<>> =>
          /\ last \in {"press", "chunk"} => ovState = "recording"
          /\ last \in {"release", "guard"} => ovState = "processing"
          /\ last = "transcribed" => ovState = "done"
          /\ last = "transcription-failed" => ovState = "error")
  /\ [][ /\ (sess # "recording" /\ sess' = "recording") =>
              [i \in 1..Len(NewEvents) |-> NewEvents[i].name] = <<"recording-started">>
         /\ (sess = "recording" /\ sess' = "recording") =>
              \A i \in 1..Len(NewEvents) : NewEvents[i].name = "audio-level"
         /\ (sess = "recording" /\ sess' = "processing") =>
              [i \in 1..Len(NewEvents) |-> NewEvents[i].name]
                = <<"recording-stopped", "transcription-started">>
         /\ (sess = "processing" /\ sess' = "done") =>
              [i \in 1..Len(NewEvents) |-> NewEvents[i].name] = <<"transcription-complete">>
         /\ (sess = "processing" /\ sess' = "error") =>
              [i \in 1..Len(NewEvents) |-> NewEvents[i].name] = <<"transcription-error">>
         /\ (sess = "processing" /\ sess' = "processing") => NewEvents = <<>>
         /\ (ovState = "recording" /\ ovState' # "recording") =>
              ovState' = "processing" /\ Delivered("recording-stopped")
         /\ (ovState # "done" /\ ovState' = "done") =>
              ovState = "processing" /\ Delivered("transcription-complete")
         /\ (ovState # "error" /\ ovState' = "error") =>
              ovState # "recording" /\ Delivered("transcription-error")
       ]_vars

\* a normal cycle has run to its end and the Overlay shows the checkmark
C12_Witness ==
  /\ last = "transcribed"
  /\ sess = "done"
  /\ evq = <<>>
  /\ ovState = "done"

\* C13: once the Overlay is unmounted, none of the seven listeners it
\* registered is still registered, whenever the listen() promises resolve.
C13_NoListenerAfterUnmount ==
  ~ovMounted => \A n \in ListenerNames : ~Registered(n)

\* C14: the Overlay's mount effect asks is_model_ready once; on the answer
\* false it sets modelReady false and invokes download_whisper_model, on
\* the answer true it sets modelReady true and is finished; the download
\* command is invoked from nowhere else, so at most once and never after a
\* true answer.
C14_DownloadIffNotReady ==
  [][ /\ ovPc' = "query" => ovPc = "query"
      /\ (ovPc = "ready_false" /\ ovPc' # ovPc) =>
           ovPc' = "dl_sent" /\ ovModelReady' = FALSE
      /\ (ovPc = "ready_true" /\ ovPc' # ovPc) =>
           ovPc' = "done" /\ ovModelReady' = TRUE
      /\ (ovPc # "dl_sent" /\ ovPc' = "dl_sent") => ovPc = "ready_false"
      /\ (ovPc' \in {"dl_wait", "dl_ok", "dl_err"} /\ ovPc' # ovPc) =>
           ovPc \in {"dl_sent", "dl_wait"}
      /\ ovPc = "done" => ovPc' = "done"
    ]_vars

\* the answer was false and the download command is on its way
C14_Witness == ovPc = "dl_sent" /\ ~ovModelReady /\ ~ModelReady

\* C15: a step of a download job (start, progress tick, failure) leaves the
\* session's state and buffer and the Overlay's state and audioLevel as
\* they are, and so does the delivery of a download-progress event to the
\* Overlay; a step of the session leaves the jobs, the catalog and both
\* windows' download fields as they are, and the delivery of a session
\* event leaves the Overlay's modelReady and downloadProgress as they are.
C15_DownloadsAndSessionIndependent ==
  [][ /\ (job' # job \/ Emitted("download-progress") \/ Delivered("download-progress")) =>
           UNCHANGED <<sess, buf, ovState, ovAudioLevel>>
      /\ \A n \in LifecycleEvents \cup {"audio-level"} :
           Delivered(n) => UNCHANGED <<ovModelReady, ovProgress>>
      /\ (sess' # sess \/ buf' # buf) =>
           UNCHANGED <<job, isDownloaded, activeModel, ovModelReady, ovProgress,
                       stDownloading, stProgress>>
    ]_vars

\* a recording is under way, the Overlay shows its level, and a progress
\* event of a download running meanwhile has reached the Overlay
C15_Witness ==
  /\ sess = "recording"
  /\ ovState = "recording"
  /\ ovAudioLevel = 1
  /\ job[DefaultModel] = [n |-> 1, got |-> 1]
  /\ ovProgress = <<1, TotalBytes>>

\* the state SpecBusy starts from
AtInitRunning ==
  /\ isDownloaded = [m \in Models |-> m # DefaultModel]
  /\ activeModel # NoModel /\ stSelected = activeModel
  /\ job = [m \in Models |-> [n |-> 0, got |-> 0]]
  /\ evq = <<>> /\ stq = <<>> /\ stCalls = <<>>
  /\ ovModelReady /\ ovProgress = <<>> /\ ovPc = "done"
  /\ stModels = [loaded |-> TRUE, down |-> Models \ {DefaultModel}]
  /\ stDownloading = NoModel /\ stProgress = <<>>

\* C16: choosing System Default sends set_audio_device with null, and
\* choosing any other option sends the name of that device.
C16_ChoiceSendsDeviceName ==
  \A i \in 1..Len(devCalls) :
    devCalls[i].cmd = "set_audio_device" =>
      devCalls[i].arg = IF devCalls[i].choice = SystemDefault
                        THEN NoDevice ELSE devCalls[i].choice

\* C17: a level is emitted exactly by the steps that capture a chunk, and
\* those happen only while the session is recording: one level per
\* captured chunk, the chunk's own, a value in [0,1], so the levels emitted
\* in a recording are as many as its chunks.  An emitted level enters the
\* Overlay's channel as one audio-level event unless the channel is full
\* (the emission never waits; the sample is then dropped).  In the channel
\* the levels lie between recording-started and recording-stopped, so the
\* Overlay gets them only in state recording and the level it holds stays
\* in [0,1].
C17_LevelsOnlyWhileRecording ==
  /\ [](\A i \in 1..Len(evq) :
          evq[i].name = "audio-level" =>
            /\ evq[i].a \in Levels
            /\ i = 1 => ovState = "recording"
            /\ i > 1 => evq[i - 1].name \in {"recording-started", "audio-level"})
  /\ [](ovAudioLevel >= 0 /\ ovAudioLevel <= 1)
  /\ [](/\ Len(levelsEmitted) = Len(buf)
        /\ \A i \in 1..Len(levelsEmitted) : levelsEmitted[i] \in Levels
        /\ levelsEmitted # <<>> => sess \in {"recording", "processing"})
  /\ [][ /\ (buf' # buf /\ buf' # <<>>) =>
              /\ sess = "recording" /\ sess' = "recording"
              /\ Len(buf') = Len(buf) + 1
              /\ levelsEmitted' = Append(levelsEmitted, buf'[Len(buf')])
              /\ IF Len(evq) < MaxQueue
                 THEN /\ Emitted("audio-level")
                      /\ Len(NewEvents) = 1
                      /\ NewEvents[1].a = buf'[Len(buf')]
                 ELSE evq' = evq
         /\ (levelsEmitted' # levelsEmitted /\ levelsEmitted' # <<>>) =>
              buf' # buf /\ sess = "recording"
         /\ Emitted("audio-level") =>
              /\ sess = "recording" /\ sess' = "recording"
              /\ Len(NewEvents) = 1
              /\ levelsEmitted' = Append(levelsEmitted, NewEvents[1].a)
         /\ Delivered("audio-level") =>
              ovState = "recording" /\ ovAudioLevel' = Head(evq).a
       ]_vars

\* a chunk was captured and its level, the top of the range, has reached
\* the Overlay
C17_Witness ==
  /\ sess = "recording"
  /\ last = "chunk"
  /\ buf = <<1>>
  /\ levelsEmitted = <<1>>
  /\ evq = <<>>
  /\ ovAudioLevel = 1

\* the payload of a download-progress event
ProgressEvent(d, t) == Event("download-progress", "", d, t)

\* payloads whose exact percentage ends in .5, where the two roundings of
\* the double arithmetic decide, with the width the code computes
HalfwayPayloads ==
  {<<1, 8, 13>>, <<3, 8, 38>>, <<1, 40, 3>>, <<23, 40, 57>>,
   <<29, 200, 14>>, <<57, 200, 28>>, <<1, 200, 1>>, <<199, 200, 100>>}

\* C18: for every payload (downloaded, total): a non-terminal event
\* (downloaded < total) makes the Overlay hold that payload and, while the
\* model is not ready, show a bar whose width is the code's
\* round(downloaded / total * 100): an integer in 0..100 that is nearest to
\* the exact percentage (where that ends in .5, either neighbour: the one
\* the double arithmetic gives); a terminal event (downloaded >= total,
\* total = 0 included) clears the held payload, so no bar is shown, and
\* marks the model ready.  In a run, the bar is shown exactly while the
\* model is not ready and the last progress event received was not
\* terminal.
C18_ProgressBar ==
  /\ [](\A d, t \in 0..MaxTotal, r \in BOOLEAN, p \in {<<>>, <<0, 1>>} :
          LET ev == ProgressEvent(d, t)
          IN IF d < t
             THEN /\ OverlayProgressOn(ev, p) = <<d, t>>
                  /\ OverlayReadyOn(ev, r) = r
                  /\ ShowsProgressBar(OverlayReadyOn(ev, r), OverlayProgressOn(ev, p)) = ~r
             ELSE /\ OverlayProgressOn(ev, p) = <<>>
                  /\ OverlayReadyOn(ev, r) = TRUE
                  /\ ~ShowsProgressBar(OverlayReadyOn(ev, r), OverlayProgressOn(ev, p)))
  /\ [](\A d, t \in 0..MaxTotal :
          d < t => Percent(d, t) \in {w \in 0..100 : /\ 2 * t * w <= 200 * d + t
                                                      /\ 2 * t * w + t >= 200 * d})
  /\ [](\A h \in HalfwayPayloads : Percent(h[1], h[2]) = h[3])
  /\ [](ShowsProgressBar(ovModelReady, ovProgress) =>
          /\ ovProgress[1] < ovProgress[2]
          /\ Percent(ovProgress[1], ovProgress[2]) \in 0..100)
  /\ [][Delivered("download-progress") =>
          IF Head(evq).a < Head(evq).b
          THEN /\ ovProgress' = <<Head(evq).a, Head(evq).b>>
               /\ ShowsProgressBar(ovModelReady', ovProgress') = ~ovModelReady
          ELSE /\ ovModelReady'
               /\ ~ShowsProgressBar(ovModelReady', ovProgress')
       ]_vars

\* the model is not ready, the job's second progress value was the last
\* received, and the bar is partly full
C18_Witness ==
  /\ ShowsProgressBar(ovModelReady, ovProgress)
  /\ ovProgress = <<1, TotalBytes>>
  /\ Percent(ovProgress[1], ovProgress[2]) \in 1..99

\* C19 as stated: what the Overlay shows depends on the state alone: the
\* bars are visible exactly in recording and processing, the checkmark
\* exactly in done, the X exactly in error, nothing in idle, and bars and
\* an icon are never visible together.
C19_ViewFunctionOfState ==
  /\ BarsVisible <=> ovState \in {"recording", "processing"}
  /\ IconVisible("checkmark") <=> ovState = "done"
  /\ IconVisible("x") <=> ovState = "error"
  /\ ~(BarsVisible /\ (IconVisible("checkmark") \/ IconVisible("x")))

\* C19 as amended: while the progress view is not shown, the bars are
\* visible exactly in recording and processing, the checkmark exactly in
\* done, the X exactly in error, and nothing in idle; while the progress
\* view is shown (model not ready, a progress payload held) neither bars
\* nor icon are visible, whatever the state; bars and an icon are never
\* visible together.
C19_ViewFunctionOfStateUnlessProgress ==
  /\ ~ShowsProgressBar(ovModelReady, ovProgress) =>
       /\ BarsVisible <=> ovState \in {"recording", "processing"}
       /\ IconVisible("checkmark") <=> ovState = "done"
       /\ IconVisible("x") <=> ovState = "error"
  /\ ShowsProgressBar(ovModelReady, ovProgress) =>
       ~BarsVisible /\ ~IconVisible("checkmark") /\ ~IconVisible("x")
  /\ ~(BarsVisible /\ (IconVisible("checkmark") \/ IconVisible("x")))
  /\ \A s \in SessionStates : ~(ShowBars(s) /\ ShowIcon(s))

\* the state is error and the progress view hides the X
C19_Witness ==
  /\ ovState = "error"
  /\ ShowsProgressBar(ovModelReady, ovProgress)
  /\ ~IconVisible("x")

\* C20: the buffer changes only by a chunk being appended at its end while
\* the session is and stays in recording (what was captured before keeps
\* its place), or by being emptied when a cycle starts or ends; entering
\* processing hands over the buffer as captured, and while the session is
\* in processing nothing writes to it.
C20_BufferAppendOnly ==
  /\ [][ /\ buf' # buf =>
              \/ /\ sess = "recording" /\ sess' = "recording"
                 /\ Len(buf') = Len(buf) + 1
                 /\ SubSeq(buf', 1, Len(buf)) = buf
                 /\ buf'[Len(buf')] \in Levels
              \/ /\ buf' = <<>>
                 /\ sess' # sess
         /\ (sess = "recording" /\ sess' = "processing") => buf' = buf
         /\ (sess = "processing" /\ sess' = "processing") => buf' = buf
         /\ (sess # "recording" /\ sess' # "recording") => Len(buf') <= Len(buf)
       ]_vars
  /\ [](sess = "processing" => Len(buf) >= MinChunks)
  /\ [](sess \in {"idle", "done", "error"} => buf = <<>>)

\* two different chunks were captured, in this order, and handed over
C20_Witness ==
  /\ sess = "processing"
  /\ buf = <<0, 1>>
  /\ last = "press-ignored"

(***************************************************************************)
(* Stopping the application.                                               *)
(***************************************************************************)
\* C21: the step that stops the application ends every download job and
\* discards what it had received, marks no model downloaded that was not,
\* and, when a recording is under way, empties its buffer, does not enter
\* processing and emits nothing; once stopped, no job runs, no model
\* becomes downloaded, and no transcription is started.
C21_StopCancelsDownloadsAndRecording ==
  /\ [][ /\ (Running /\ ~Running') =>
              /\ \A m \in Models : job'[m] = [n |-> 0, got |-> 0]
              /\ isDownloaded' = isDownloaded
              /\ sess = "recording" =>
                   buf' = <<>> /\ sess' # "processing" /\ NewEvents = <<>>
         /\ ~Running =>
              /\ ~Running'
              /\ sess' # "processing"
              /\ ~Emitted("transcription-started")
              /\ UNCHANGED <<job, isDownloaded, buf>>
       ]_vars
  /\ [](~Running =>
          /\ \A m \in Models : job[m].n = 0
          /\ sess # "processing"
          /\ buf = <<>>)

\* the application was stopped while a download waited for by the Settings
\* panel was half done and a recording long enough to be transcribed was
\* under way, the Overlay having received every event
C21_Witness ==
  /\ ~Running
  /\ \E i \in 1..Len(stCalls) :
       /\ stCalls[i].cmd = "download_model_size"
       /\ stCalls[i].st = "waiting"
       /\ ~isDownloaded[stCalls[i].size]
       /\ stProgress = <<stCalls[i].size, 1, TotalBytes>>
  /\ stq = <<>>
  /\ evq = <<>>
  /\ ovState = "recording"
  /\ ovAudioLevel = 1
  /\ \A m \in Models : job[m] = [n |-> 0, got |-> 0]

(***************************************************************************)
(* The Overlay's modelReady against the answers and events that set it.    *)
(***************************************************************************)
\* C22: once the Overlay's modelReady is true it stays true, and from then
\* on the Overlay sends no download_whisper_model, whenever the answer of
\* is_model_ready and the download-progress events arrive.
C22_ModelReadyMonotone ==
  [][ovModelReady =>
       /\ ovModelReady'
       /\ ovPc' = "dl_sent" => ovPc = "dl_sent"
    ]_vars

(***************************************************************************)
(* The Settings panel against the commands it has in flight.               *)
(***************************************************************************)
\* the Settings calls download_model_size for m that have not resolved
DownloadsInFlight(m) ==
  {i \in 1..Len(stCalls) :
     /\ stCalls[i].cmd = "download_model_size"
     /\ stCalls[i].size = m
     /\ stCalls[i].st \in {"sent", "waiting"}}

\* C23: while a download_model_size of the Settings panel for a model is
\* in flight, `downloading` is that model, so that its button is disabled,
\* and the panel sends no second download_model_size for it, whatever
\* happens to the downloads of other models meanwhile.
C23_InFlightGuardAccurate ==
  /\ [](\A m \in Models : DownloadsInFlight(m) # {} => stDownloading = m)
  /\ [][\A m \in Models :
          (/\ Len(stCalls') > Len(stCalls)
           /\ stCalls'[Len(stCalls')].cmd = "download_model_size"
           /\ stCalls'[Len(stCalls')].size = m) => DownloadsInFlight(m) = {}
       ]_vars

\* the Settings calls set_model_size / download_model_size not yet completed
\* (the response not received, or its continuation not run)
SelectionsInFlight ==
  {i \in 1..Len(stCalls) :
     stCalls[i].cmd \in {"set_model_size", "download_model_size"}}

\* C24: when no set_model_size or download_model_size of the Settings
\* panel is in flight any more, its selectedModel is the model clicked last
\* and is the active model of the core.
C24_SelectedIsLastClicked ==
  (clicked # NoModel /\ SelectionsInFlight = {}) =>
    stSelected = clicked /\ stSelected = activeModel

\* the Settings calls set_audio_device not yet completed
DeviceChangesInFlight ==
  {i \in 1..Len(devCalls) : devCalls[i].cmd = "set_audio_device"}

\* C25: when no set_audio_device of the Settings panel is in flight any
\* more, its currentDevice is the AudioDeviceSelection the core has
\* committed, in whatever order the responses were received.
C25_CurrentDeviceIsCommitted ==
  DeviceChangesInFlight = {} => stCurrentDevice = deviceSelection

(***************************************************************************)
(* The Overlay's audioLevel against its state.                             *)
(***************************************************************************)
\* the Overlay holds no level outside recording
LevelZeroOutsideRecording == ovState # "recording" => ovAudioLevel = 0

\* C26 as stated: in every state of the Overlay the audioLevel is 0 when
\* the state is not recording, whatever events were received.
C26_LevelZeroOutsideRecording == LevelZeroOutsideRecording

\* C26 as amended: recording-started and recording-stopped set the level
\* to 0, audio-level stores its payload in whatever state it is received,
\* every other event leaves the level as it is; so "the level is 0 outside
\* recording" is kept by every event except an audio-level received
\* outside recording and a transcription event received in recording: a
\* step that breaks it either stores a non-zero level and leaves the state
\* alone, or leaves recording and keeps the level.
C26_LevelZeroUnlessStrayEvent ==
  /\ [](\A n \in ListenerNames, l \in Levels :
          \A ev \in Payloads(n) :
            /\ OverlayLevelOn(ev, l) =
                 CASE n \in {"recording-started", "recording-stopped"} -> 0
                   [] n = "audio-level" -> ev.a
                   [] OTHER -> l
            /\ \A s \in SessionStates :
                 (/\ s # "recording" => l = 0
                  /\ ~(n = "audio-level" /\ s # "recording")
                  /\ ~(s = "recording" /\
                         n \in {"transcription-started", "transcription-complete",
                                "transcription-error"}))
                   => (OverlayStateOn(n, s) # "recording" => OverlayLevelOn(ev, l) = 0))
  /\ [][(LevelZeroOutsideRecording /\ ~LevelZeroOutsideRecording') =>
          \/ /\ ovState # "recording"
             /\ ovState' = ovState
             /\ ovAudioLevel' # 0
          \/ /\ ovState = "recording"
             /\ ovState' \in {"processing", "done", "error"}
             /\ ovAudioLevel' = ovAudioLevel
       ]_vars

\* the level was reset on leaving recording, and an audio-level event with
\* a non-zero payload received afterwards is held in state processing
C26_Witness ==
  /\ ovState = "processing"
  /\ ovAudioLevel = 1
  /\ evq = <<>>
====
